---- MODULE Spec2Model ----
(***************************************************************************)
(* CodeTutor backend: account directory, session tokens, progress ledger,  *)
(* key vault and chat proxy, as implemented by the two backends            *)
(* backend/main.py (FastAPI) and backend/flask_app.py (Flask) over the     *)
(* tables of backend/models.py.                                            *)
(***************************************************************************)
EXTENDS Integers, Sequences, FiniteSets, TLC

VARIABLES
    users,      \* table "users": sequence of rows, a row's id is its index
    progress,   \* table "progress": sequence of rows, a row's id is its index
    issued,     \* the bearer tokens create_access_token has handed out
    now,        \* the clock (minutes)
    workers,    \* per worker: the push request it is in the middle of
    serverKey,  \* main.py's server-wide provider key (configuration)
    outbound,   \* the calls made to the chat-completion provider
    last        \* the request handled last (operation, backend, Authorization
                \* header, argument) and the response it got

vars == <<users, progress, issued, now, workers, serverKey, outbound, last>>

(***************************************************************************)
(* Bounds of the model                                                     *)
(***************************************************************************)
MaxUsers == 2
MaxRows == 2
MaxItems == 2
MaxTicks == 1
TickMinutes == 43201
MaxOutbound == 1

(***************************************************************************)
(* Values                                                                  *)
(***************************************************************************)
Variants == {"fastapi", "flask"}
Usernames == {"a", "b"}
Domains == {"x", "y"}
\* an e-mail address local@domain; an empty domain does not validate
Emails == [local : Usernames, domain : Domains]
BadEmail == [local |-> "a", domain |-> ""]
Passwords == {"p1"}
WrongPassword == "p0"
NoneVal == "None"
Lessons == {"L1", "L2"}
Statuses == {"started", "completed"}
Workers == {"w1", "w2"}

ACCESS_TOKEN_EXPIRE_MINUTES == 43200

(***************************************************************************)
(* Credential store and session issuer                                     *)
(***************************************************************************)
get_password_hash(password) == [scheme |-> "bcrypt", of |-> password]

verify_password(plain_password, hashed_password) ==
    hashed_password.scheme = "bcrypt" /\ hashed_password.of = plain_password

\* secrets.token_urlsafe(16): a value no client knows
token_urlsafe == "random"

create_access_token(sub) == [sub |-> sub, exp |-> now + ACCESS_TOKEN_EXPIRE_MINUTES]

NoToken == [sub |-> "", exp |-> 0]

\* Authorization headers a client can send: none, one that is not a bearer
\* header, a bearer header whose token does not verify, a token the server issued
NoHeader == [kind |-> "none", sub |-> "", exp |-> 0]
BasicHeader == [kind |-> "basic", sub |-> "", exp |-> 0]
GarbageHeader == [kind |-> "garbage", sub |-> "", exp |-> 0]
Bearer(t) == [kind |-> "jwt", sub |-> t.sub, exp |-> t.exp]
Headers == {NoHeader, BasicHeader, GarbageHeader} \cup {Bearer(t) : t \in issued}

\* jwt.decode: the signature verifies and the token has not expired
jwt_decode_ok(h) == h.kind = "jwt" /\ ~(h.exp < now)

Expired(h) == h.kind = "jwt" /\ h.exp < now

FindByUsername(username) ==
    IF \E i \in 1..Len(users) : users[i].username = username
    THEN CHOOSE i \in 1..Len(users) : users[i].username = username
    ELSE 0

FindByEmail(email) ==
    IF \E i \in 1..Len(users) : users[i].email = email
    THEN CHOOSE i \in 1..Len(users) : users[i].email = email
    ELSE 0

\* the mutation: the expiry of the token is not checked
get_current_user_no_expiry(h) ==
    IF h.kind # "jwt" THEN 0 ELSE FindByUsername(h.sub)

\* the id of the account the header authenticates, 0 for None
get_current_user(h) ==
    IF h.kind \in {"none", "basic"} THEN 0
    ELSE IF ~jwt_decode_ok(h) THEN 0
    ELSE FindByUsername(h.sub)

\* auth.get_current_user of main.py: raises 401 where flask's returns None
auth_get_current_user(h) == get_current_user(h)

CurrentUser(v, h) == IF v = "flask" THEN get_current_user(h) ELSE auth_get_current_user(h)

Unauthenticated(op, v, h) ==
    [op |-> op, variant |-> v, hdr |-> h, arg |-> NoneVal, uid |-> 0, code |-> 401,
     body |-> [detail |-> "Not authenticated"]]

(***************************************************************************)
(* Account directory                                                       *)
(***************************************************************************)
NewUser(username, email, hashed_pw) ==
    [username |-> username, email |-> email, hashed_password |-> hashed_pw,
     api_key_vault |-> NoneVal]

\* the unique constraints of users.username and users.email
UniqueViolation(row) ==
    \E i \in 1..Len(users) : users[i].username = row.username \/ users[i].email = row.email

ValidEmail(email) == email.domain # ""

TokenResponse(op, v, uid, token) ==
    [op |-> op, variant |-> v, hdr |-> NoHeader, arg |-> NoneVal, uid |-> uid, code |-> 200,
     body |-> [access_token |-> token, token_type |-> "bearer"]]

ErrorResponse(op, v, h, uid, code, detail) ==
    [op |-> op, variant |-> v, hdr |-> h, arg |-> NoneVal, uid |-> uid, code |-> code,
     body |-> [detail |-> detail]]

RegisterCreated(v, username, email, password) ==
    /\ Len(users) < MaxUsers
    /\ users' = Append(users, NewUser(username, email, get_password_hash(password)))
    /\ issued' = issued \cup {create_access_token(username)}
    /\ last' = TokenResponse("register", v, Len(users) + 1, create_access_token(username))

RegisterRejected(v, code, detail) ==
    /\ last' = ErrorResponse("register", v, NoHeader, 0, code, detail)
    /\ UNCHANGED <<users, issued>>

\* flask_app.py register
RegisterFlask(username, email, password) ==
    IF ~ValidEmail(email)
    THEN RegisterRejected("flask", 422, "value is not a valid email address")
    ELSE IF FindByUsername(username) # 0
    THEN RegisterRejected("flask", 400, "Username already registered")
    ELSE IF FindByEmail(email) # 0
    THEN RegisterRejected("flask", 400, "Email already registered")
    ELSE RegisterCreated("flask", username, email, password)

\* main.py register: no lookup by e-mail, the commit meets the unique constraint
RegisterFastapi(username, email, password) ==
    IF ~ValidEmail(email)
    THEN RegisterRejected("fastapi", 422, "value is not a valid email address")
    ELSE IF FindByUsername(username) # 0
    THEN RegisterRejected("fastapi", 400, "Username already registered")
    ELSE IF UniqueViolation(NewUser(username, email, get_password_hash(password)))
    THEN RegisterRejected("fastapi", 500, "Internal Server Error")
    ELSE RegisterCreated("fastapi", username, email, password)

Register(v, username, email, password) ==
    /\ IF v = "flask" THEN RegisterFlask(username, email, password)
                      ELSE RegisterFastapi(username, email, password)
    /\ UNCHANGED <<progress, now, workers, serverKey, outbound>>

Login(v, username, password) ==
    /\ LET uid == FindByUsername(username) IN
       IF uid = 0 \/ ~verify_password(password, users[uid].hashed_password)
       THEN /\ last' = ErrorResponse("login", v, NoHeader, 0, 401, "Incorrect username or password")
            /\ UNCHANGED issued
       ELSE /\ issued' = issued \cup {create_access_token(username)}
            /\ last' = TokenResponse("login", v, uid, create_access_token(username))
    /\ UNCHANGED <<users, progress, now, workers, serverKey, outbound>>

\* flask_app.py authorize_google, from the e-mail address the provider vouches for
FederatedLogin(email) ==
    /\ LET username == email.local
           uid == FindByEmail(email)
           row == NewUser(username, email, get_password_hash(token_urlsafe))
       IN
       IF uid # 0
       THEN /\ issued' = issued \cup {create_access_token(users[uid].username)}
            /\ last' = TokenResponse("federated_login", "flask", uid,
                                     create_access_token(users[uid].username))
            /\ UNCHANGED users
       ELSE IF UniqueViolation(row)
       THEN /\ last' = ErrorResponse("federated_login", "flask", NoHeader, 0, 400, "Auth failed")
            /\ UNCHANGED <<users, issued>>
       ELSE /\ Len(users) < MaxUsers
            /\ users' = Append(users, row)
            /\ issued' = issued \cup {create_access_token(username)}
            /\ last' = TokenResponse("federated_login", "flask", Len(users) + 1,
                                     create_access_token(username))
    /\ UNCHANGED <<progress, now, workers, serverKey, outbound>>

\* the clock advances past the validity window of the tokens issued so far
Tick ==
    /\ now < MaxTicks * TickMinutes
    /\ now' = now + TickMinutes
    /\ UNCHANGED <<users, progress, issued, workers, serverKey, outbound, last>>

NoRequest ==
    [op |-> "none", variant |-> "flask", hdr |-> NoHeader, arg |-> NoneVal, uid |-> 0,
     code |-> 0, body |-> [detail |-> ""]]

IdleWorker == [pc |-> "idle"]

InitDir ==
    /\ users = <<>>
    /\ progress = <<>>
    /\ issued = {}
    /\ now = 0
    /\ workers = [w \in Workers |-> IdleWorker]
    /\ serverKey = ""
    /\ outbound = <<>>
    /\ last = NoRequest

NextDir ==
    \/ \E v \in Variants, u \in Usernames, e \in Emails \cup {BadEmail}, p \in Passwords :
          Register(v, u, e, p)
    \/ \E v \in Variants, u \in Usernames, p \in Passwords \cup {WrongPassword} :
          Login(v, u, p)
    \/ \E e \in Emails : FederatedLogin(e)
    \/ Tick

SpecDir == InitDir /\ [][NextDir]_vars


(***************************************************************************)
(* Progress ledger                                                         *)
(***************************************************************************)
MissingField == "<missing>"
Items == [lesson_id : Lessons, status : Statuses, homework_passed : BOOLEAN]
\* an item without lesson_id: schemas.ProgressCreate rejects it
InvalidItem == [lesson_id |-> MissingField, status |-> "started", homework_passed |-> FALSE]

ProgressCreate_ok(item) == item.lesson_id # MissingField

RECURSIVE SeqsUpTo(_, _)
SeqsUpTo(S, n) ==
    IF n = 0 THEN {<<>>}
    ELSE LET shorter == SeqsUpTo(S, n - 1)
         IN shorter \cup {Append(q, x) : q \in {r \in shorter : Len(r) = n - 1}, x \in S}

PushLists == SeqsUpTo(Items, MaxItems)

AllValid(items) == \A k \in 1..Len(items) : ProgressCreate_ok(items[k])

Min(S) == CHOOSE m \in S : \A n \in S : m <= n

Matching(table, uid, lesson) ==
    {i \in 1..Len(table) : table[i].user_id = uid /\ table[i].lesson_id = lesson}

\* a database session: the rows added and not yet committed, and the rows
\* loaded into its identity map with the attribute values held in memory
EmptySession == [new |-> <<>>, objs |-> {}]

Loaded(sess, id) == \E o \in sess.objs : o.id = id
Obj(sess, id) == CHOOSE o \in sess.objs : o.id = id

\* the session's own pending rows that a query of the session sees
PendingVisible(sess, uid, lesson) == Matching(sess.new, uid, lesson)

\* db.query(models.Progress).filter(user_id == .., lesson_id == ..).first()
QueryFirst(table, sess, uid, lesson) ==
    IF Matching(table, uid, lesson) # {}
    THEN [kind |-> "row", id |-> Min(Matching(table, uid, lesson))]
    ELSE IF PendingVisible(sess, uid, lesson) # {}
    THEN [kind |-> "new", id |-> Min(PendingVisible(sess, uid, lesson))]
    ELSE [kind |-> "none", id |-> 0]

\* the mutation: the incoming status always overwrites the stored one
MergeOverwrite(cur, item) ==
    IF cur.status # item.status
    THEN [cur EXCEPT !.status = item.status, !.homework_passed = item.homework_passed]
    ELSE cur

\* the mutation: the latch sets the status and keeps the stored homework flag
MergeKeepHomework(cur, item) ==
    IF cur.status # "completed" /\ item.status = "completed"
    THEN [cur EXCEPT !.status = "completed"]
    ELSE cur

\* the merge rule applied to an existing record
Merge(cur, item) ==
    IF cur.status # "completed" /\ item.status = "completed"
    THEN [cur EXCEPT !.status = "completed", !.homework_passed = item.homework_passed]
    ELSE cur

NewProgress(uid, item) ==
    [user_id |-> uid, lesson_id |-> item.lesson_id, status |-> item.status,
     homework_passed |-> item.homework_passed]

\* the object first() returns for a stored row: the one the identity map
\* holds, else the row as read
LoadedObj(table, sess, id) ==
    IF Loaded(sess, id) THEN Obj(sess, id)
    ELSE [id |-> id, status |-> table[id].status,
          homework_passed |-> table[id].homework_passed, dirty |-> FALSE]

\* the mutation: the item is added without looking for an existing record
LoopBodyInsertOnly(sess, table, uid, item) ==
    [sess EXCEPT !.new = Append(@, NewProgress(uid, item))]

\* one iteration of sync_progress's loop for a valid item
LoopBody(sess, table, uid, item) ==
    LET h == QueryFirst(table, sess, uid, item.lesson_id) IN
    IF h.kind = "none"
    THEN [sess EXCEPT !.new = Append(@, NewProgress(uid, item))]
    ELSE IF h.kind = "new"
    THEN [sess EXCEPT !.new[h.id] = Merge(@, item)]
    ELSE LET cur == LoadedObj(table, sess, h.id)
             m == Merge(cur, item)
         IN [sess EXCEPT !.objs = {o \in @ : o.id # h.id}
                                  \cup {[m EXCEPT !.dirty = cur.dirty \/ m # cur]}]

\* db.commit(): the UPDATEs of the modified objects, the INSERTs of the added rows
Commit(table, sess) ==
    [i \in 1..Len(table) |->
        IF \E o \in sess.objs : o.id = i /\ o.dirty
        THEN [table[i] EXCEPT !.status = Obj(sess, i).status,
                              !.homework_passed = Obj(sess, i).homework_passed]
        ELSE table[i]] \o sess.new

RECURSIVE RunLoop(_, _, _, _)
RunLoop(sess, table, uid, items) ==
    IF items = <<>> THEN sess
    ELSE RunLoop(LoopBody(sess, table, uid, Head(items)), table, uid, Tail(items))

\* a whole push handled with no other request in between
ApplyPush(table, uid, items) == Commit(table, RunLoop(EmptySession, table, uid, items))

PullBody(table, uid) ==
    LET mine == SelectSeq(table, LAMBDA r : r.user_id = uid)
    IN [k \in 1..Len(mine) |->
           [lesson_id |-> mine[k].lesson_id, status |-> mine[k].status,
            homework_passed |-> mine[k].homework_passed]]

OkResponse(op, v, h, uid, body) ==
    [op |-> op, variant |-> v, hdr |-> h, arg |-> NoneVal, uid |-> uid, code |-> 200,
     body |-> body]

\* sync_progress, handled in one piece
Push(v, h, items) ==
    /\ LET uid == CurrentUser(v, h)
           after == ApplyPush(progress, uid, items)
       IN
       IF uid = 0
       THEN /\ last' = Unauthenticated("push", v, h)
            /\ UNCHANGED progress
       ELSE IF ~AllValid(items)
       THEN /\ last' = IF v = "fastapi"
                       THEN ErrorResponse("push", v, h, uid, 422, "field required")
                       ELSE ErrorResponse("push", v, h, uid, 500, "Internal Server Error")
            /\ UNCHANGED progress
       ELSE /\ Len(after) <= MaxRows
            /\ progress' = after
            /\ last' = OkResponse("push", v, h, uid, [status |-> "synced"])
    /\ UNCHANGED <<users, issued, now, workers, serverKey, outbound>>

\* get_cloud_progress
Pull(v, h) ==
    /\ LET uid == CurrentUser(v, h) IN
       IF uid = 0
       THEN last' = Unauthenticated("pull", v, h)
       ELSE last' = OkResponse("pull", v, h, uid, [records |-> PullBody(progress, uid)])
    /\ UNCHANGED <<users, progress, issued, now, workers, serverKey, outbound>>

\* the directory after a and b registered at time 0
TwoUsers ==
    <<NewUser("a", [local |-> "a", domain |-> "x"], get_password_hash("p1")),
      NewUser("b", [local |-> "b", domain |-> "x"], get_password_hash("p1"))>>

TwoTokens ==
    {[sub |-> "a", exp |-> ACCESS_TOKEN_EXPIRE_MINUTES],
     [sub |-> "b", exp |-> ACCESS_TOKEN_EXPIRE_MINUTES]}

InitLedger ==
    /\ users = TwoUsers
    /\ progress = <<>>
    /\ issued = TwoTokens
    /\ now = 0
    /\ workers = [w \in Workers |-> IdleWorker]
    /\ serverKey = ""
    /\ outbound = <<>>
    /\ last = NoRequest

LedgerHeaders == {NoHeader} \cup {Bearer(t) : t \in issued}

NextLedger ==
    \/ \E v \in Variants, h \in LedgerHeaders, items \in PushLists : Push(v, h, items)
    \/ \E v \in Variants, h \in LedgerHeaders : Pull(v, h)

SpecLedger == InitLedger /\ [][NextLedger]_vars

(***************************************************************************)
(* Concurrent pushes: each request runs in its own database session, one   *)
(* loop iteration (a query, then changes held in the session) at a time    *)
(***************************************************************************)
Busy(w) == workers[w].pc = "loop"

PushBegin(w, v, h) ==
    /\ ~Busy(w)
    /\ LET uid == CurrentUser(v, h) IN
       IF uid = 0
       THEN /\ last' = Unauthenticated("push", v, h)
            /\ UNCHANGED workers
       ELSE /\ workers' = [workers EXCEPT ![w] =
                   [pc |-> "loop", variant |-> v, hdr |-> h, uid |-> uid, n |-> 0,
                    sess |-> EmptySession]]
            /\ UNCHANGED last
    /\ UNCHANGED <<users, progress, issued, now, serverKey, outbound>>

\* main.py: the body is validated before sync_progress is entered
PushInvalidBody(w, h) ==
    /\ ~Busy(w)
    /\ LET uid == CurrentUser("fastapi", h) IN
       IF uid = 0
       THEN last' = Unauthenticated("push", "fastapi", h)
       ELSE last' = ErrorResponse("push", "fastapi", h, uid, 422, "field required")
    /\ UNCHANGED <<users, progress, issued, now, workers, serverKey, outbound>>

\* the mutation: every iteration commits its own changes
PushItemAutocommit(w, item) ==
    /\ Busy(w)
    /\ workers[w].n < MaxItems
    /\ Len(Commit(progress, LoopBody(workers[w].sess, progress, workers[w].uid, item)))
           <= MaxRows
    /\ progress' = Commit(progress,
                          LoopBody(workers[w].sess, progress, workers[w].uid, item))
    /\ workers' = [workers EXCEPT ![w].n = @ + 1, ![w].sess = EmptySession]
    /\ UNCHANGED <<users, issued, now, serverKey, outbound, last>>

PushItem(w, item) ==
    /\ Busy(w)
    /\ workers[w].n < MaxItems
    /\ workers' = [workers EXCEPT ![w].n = @ + 1,
                                  ![w].sess = LoopBody(@, progress, workers[w].uid, item)]
    /\ UNCHANGED <<users, progress, issued, now, serverKey, outbound, last>>

\* flask_app.py: schemas.ProgressCreate(**item_data) raises inside the loop;
\* the request ends without a commit and teardown_db closes the session
PushItemInvalid(w) ==
    /\ Busy(w)
    /\ workers[w].variant = "flask"
    /\ workers[w].n < MaxItems
    /\ workers' = [workers EXCEPT ![w] = IdleWorker]
    /\ last' = ErrorResponse("push", "flask", workers[w].hdr, workers[w].uid, 500,
                             "Internal Server Error")
    /\ UNCHANGED <<users, progress, issued, now, serverKey, outbound>>

PushCommit(w) ==
    /\ Busy(w)
    /\ Len(Commit(progress, workers[w].sess)) <= MaxRows
    /\ progress' = Commit(progress, workers[w].sess)
    /\ workers' = [workers EXCEPT ![w] = IdleWorker]
    /\ last' = OkResponse("push", workers[w].variant, workers[w].hdr, workers[w].uid,
                          [status |-> "synced"])
    /\ UNCHANGED <<users, issued, now, serverKey, outbound>>

\* the requests of the concurrent runs: account a's, with homework passed
\* exactly on the completed items
SyncHeaders == {NoHeader} \cup {Bearer(t) : t \in {x \in issued : x.sub = "a"}}
SyncItems == {i \in Items : i.homework_passed = (i.status = "completed")}

NextSync ==
    \/ \E w \in Workers, v \in Variants, h \in SyncHeaders : PushBegin(w, v, h)
    \/ \E w \in Workers, h \in SyncHeaders : PushInvalidBody(w, h)
    \/ \E w \in Workers, item \in SyncItems : PushItem(w, item)
    \/ \E w \in Workers : PushItemInvalid(w)
    \/ \E w \in Workers : PushCommit(w)
    \/ \E v \in Variants, h \in SyncHeaders : Pull(v, h)

SpecSync == InitLedger /\ [][NextSync]_vars

(***************************************************************************)
(* Profile, key vault and chat proxy                                       *)
(***************************************************************************)
\* Python's bool() of Optional[str]
Truthy(x) == x # NoneVal /\ x # ""

\* the mutation: the flag tells whether the vault is not None
ProfileBodyNotNone(uid, user) ==
    [id |-> uid, username |-> user.username, email |-> user.email,
     has_api_key |-> user.api_key_vault # NoneVal]

ProfileBody(uid, user) ==
    [id |-> uid, username |-> user.username, email |-> user.email,
     has_api_key |-> Truthy(user.api_key_vault)]

\* read_users_me
GetProfile(v, h) ==
    /\ LET uid == CurrentUser(v, h) IN
       IF uid = 0
       THEN last' = Unauthenticated("get_profile", v, h)
       ELSE last' = OkResponse("get_profile", v, h, uid, ProfileBody(uid, users[uid]))
    /\ UNCHANGED <<users, progress, issued, now, workers, serverKey, outbound>>

Blobs == {"", "sk-user"}

\* update_api_key; a body without "api_key" is None to flask's data.get and
\* does not validate as schemas.APIKeyUpdate
UpdateVault(v, h, blob) ==
    /\ LET uid == CurrentUser(v, h) IN
       IF uid = 0
       THEN /\ last' = Unauthenticated("update_vault", v, h)
            /\ UNCHANGED users
       ELSE IF v = "fastapi" /\ blob = NoneVal
       THEN /\ last' = ErrorResponse("update_vault", v, h, uid, 422, "field required")
            /\ UNCHANGED users
       ELSE /\ users' = [users EXCEPT ![uid].api_key_vault = blob]
            /\ last' = [OkResponse("update_vault", v, h, uid, [status |-> "updated"])
                           EXCEPT !.arg = blob]
    /\ UNCHANGED <<progress, issued, now, workers, serverKey, outbound>>

\* main.py's server key: not set, the placeholder of the template, a real key
PlaceholderKey == "sk-or-v1-YOUR-KEY-HERE"
ServerKeys == {"", PlaceholderKey, "sk-server"}
HasPlaceholder(key) == key = PlaceholderKey

\* what the provider can answer to one call
Replies ==
    {[kind |-> "ok", status |-> 200, text |-> "hello"],
     [kind |-> "malformed", status |-> 200, text |-> "{}"],
     [kind |-> "http", status |-> 429, text |-> "rate limited"],
     [kind |-> "http", status |-> 401, text |-> "invalid key"],
     [kind |-> "transport", status |-> 0, text |-> "timed out"]}

\* str() of the HTTPException(status_code, detail) raised for a reply
HTTPExceptionStr(status, text) == ToString(status) \o ": " \o text

Call(key, reply) == [key |-> key, reply |-> reply]

\* flask_app.py ai_chat after the key is resolved: one requests.post
ChatCallFlask(h, uid, key, reply) ==
    /\ Len(outbound) < MaxOutbound
    /\ outbound' = Append(outbound, Call(key, reply))
    /\ last' = IF reply.kind = "transport"
               THEN ErrorResponse("chat", "flask", h, uid, 500, reply.text)
               ELSE IF reply.status # 200
               THEN ErrorResponse("chat", "flask", h, uid, reply.status, reply.text)
               ELSE IF reply.kind = "malformed"
               THEN ErrorResponse("chat", "flask", h, uid, 500, "'choices'")
               ELSE OkResponse("chat", "flask", h, uid, [response |-> reply.text])

\* main.py ai_chat after the key is resolved: one client.post; the
\* HTTPException raised for a non-200 reply is caught by "except Exception"
ChatCallFastapi(h, uid, key, reply) ==
    /\ Len(outbound) < MaxOutbound
    /\ outbound' = Append(outbound, Call(key, reply))
    /\ last' = IF reply.kind = "transport"
               THEN ErrorResponse("chat", "fastapi", h, uid, 500, reply.text)
               ELSE IF reply.status # 200
               THEN ErrorResponse("chat", "fastapi", h, uid, 500,
                                  HTTPExceptionStr(reply.status, reply.text))
               ELSE IF reply.kind = "malformed"
               THEN ErrorResponse("chat", "fastapi", h, uid, 500, "'choices'")
               ELSE OkResponse("chat", "fastapi", h, uid, [response |-> reply.text])

\* main.py: the key the outbound call is made with, "" when there is none
ResolveKeyFastapi(uid) ==
    IF (~Truthy(serverKey) \/ HasPlaceholder(serverKey)) /\ Truthy(users[uid].api_key_vault)
    THEN users[uid].api_key_vault
    ELSE serverKey

\* flask_app.py: the account's vault entry
ResolveKeyFlask(uid) == users[uid].api_key_vault

ChatFlask(h, reply) ==
    LET uid == get_current_user(h) IN
    IF uid = 0
    THEN last' = Unauthenticated("chat", "flask", h) /\ UNCHANGED outbound
    ELSE IF ~Truthy(ResolveKeyFlask(uid))
    THEN /\ last' = ErrorResponse("chat", "flask", h, uid, 400,
                        "No API Key found. Please add one in Settings (Vault).")
         /\ UNCHANGED outbound
    ELSE ChatCallFlask(h, uid, ResolveKeyFlask(uid), reply)

ChatFastapi(h, reply) ==
    LET uid == auth_get_current_user(h) IN
    IF uid = 0
    THEN last' = Unauthenticated("chat", "fastapi", h) /\ UNCHANGED outbound
    ELSE IF ~Truthy(ResolveKeyFastapi(uid))
    THEN /\ last' = ErrorResponse("chat", "fastapi", h, uid, 500,
                        "Server AI configuration missing. Please contact administrator.")
         /\ UNCHANGED outbound
    ELSE ChatCallFastapi(h, uid, ResolveKeyFastapi(uid), reply)

Chat(v, h, reply) ==
    /\ IF v = "flask" THEN ChatFlask(h, reply) ELSE ChatFastapi(h, reply)
    /\ UNCHANGED <<users, progress, issued, now, workers, serverKey>>

\* the directory after a registered at time 0
OneUser == <<NewUser("a", [local |-> "a", domain |-> "x"], get_password_hash("p1"))>>

InitApi ==
    /\ users = OneUser
    /\ progress = <<>>
    /\ issued = {[sub |-> "a", exp |-> ACCESS_TOKEN_EXPIRE_MINUTES]}
    /\ now = 0
    /\ workers = [w \in Workers |-> IdleWorker]
    /\ serverKey \in ServerKeys
    /\ outbound = <<>>
    /\ last = NoRequest

\* the push bodies of these runs
ApiPushLists ==
    {<<>>, <<[lesson_id |-> "L1", status |-> "completed", homework_passed |-> TRUE]>>,
     <<InvalidItem>>}

NextApi ==
    \/ \E v \in Variants, h \in Headers : GetProfile(v, h)
    \/ \E v \in Variants, h \in Headers, blob \in Blobs \cup {NoneVal} : UpdateVault(v, h, blob)
    \/ \E v \in Variants, h \in Headers, items \in ApiPushLists : Push(v, h, items)
    \/ \E v \in Variants, h \in Headers : Pull(v, h)
    \/ \E v \in Variants, h \in Headers, reply \in Replies : Chat(v, h, reply)
    \/ Tick

SpecApi == InitApi /\ [][NextApi]_vars

(***************************************************************************)
(* Claims about the account directory (checked under SpecDir)              *)
(***************************************************************************)
HandleUsed(username) == \E i \in 1..Len(users) : users[i].username = username
ContactUsed(email) == \E i \in 1..Len(users) : users[i].email = email

\* C5: a well-formed register call whose handle is already used, or whose
\* handle is new but whose contact address is already used, yields Conflict
\* (400), creates no account and issues no session credential.
C5_DuplicateIsConflict ==
    [][\A v \in Variants, u \in Usernames, e \in Emails, p \in Passwords :
          (Register(v, u, e, p) /\ (HandleUsed(u) \/ ContactUsed(e)))
              => (last'.code = 400 /\ users' = users /\ issued' = issued)]_vars

AccountsWithContact(table, email) == {i \in 1..Len(table) : table[i].email = email}

\* C10: from any directory state federated_login(contact) yields a session
\* for an account whose contact address is that address, creates the account
\* only if none exists, and leaves exactly one account with that address.
C10_FederatedLoginIdempotent ==
    [][\A e \in Emails :
          FederatedLogin(e)
              => /\ last'.code = 200
                 /\ Cardinality(AccountsWithContact(users', e)) = 1
                 /\ \A i \in AccountsWithContact(users', e) :
                        last'.body.access_token.sub = users'[i].username
                 /\ (ContactUsed(e) => users' = users)]_vars

(***************************************************************************)
(* Claims about the protected operations (checked under SpecApi)           *)
(***************************************************************************)
ProtectedOps == {"get_profile", "push", "pull", "update_vault", "chat"}

\* a step that handles a request: every request writes last, the clock does not
RequestStep(op) == last'.op = op /\ now' = now

BadHeader(h) == h.kind \in {"none", "basic", "garbage"} \/ Expired(h)

\* C6: a protected operation called with no Authorization header, with a
\* malformed token or with an expired token answers 401 "Not authenticated",
\* the same for all three, and accounts, ledger and vault stay as they are
\* and no outbound call is made.
C6_UnauthenticatedBeforeOperation ==
    [][\A op \in ProtectedOps :
          (RequestStep(op) /\ BadHeader(last'.hdr))
              => /\ last'.code = 401
                 /\ last'.uid = 0
                 /\ last'.body = [detail |-> "Not authenticated"]
                 /\ UNCHANGED <<users, progress, outbound, issued>>]_vars

\* an expired token was presented to the chat proxy and refused
C6_Witness ==
    /\ last.op = "chat"
    /\ last.hdr.kind = "jwt"
    /\ last.hdr.exp < now
    /\ last.code = 401

GetProfileAfterUpdateVault ==
    /\ last.op = "update_vault"
    /\ last.code = 200
    /\ RequestStep("get_profile")
    /\ last'.code = 200
    /\ last'.uid = last.uid

\* the strings a response body carries
BodyStrings(r) ==
    IF r.code # 200 THEN {r.body.detail}
    ELSE IF r.op = "get_profile" THEN {r.body.username}
    ELSE IF r.op = "chat" THEN {r.body.response}
    ELSE IF r.op \in {"push", "update_vault"} THEN {r.body.status}
    ELSE IF r.op = "pull"
    THEN UNION {{r.body.records[k].lesson_id, r.body.records[k].status} :
                    k \in 1..Len(r.body.records)}
    ELSE {}

NoBlobInBody ==
    \A i \in 1..Len(users) :
        Truthy(users[i].api_key_vault) => users[i].api_key_vault \notin BodyStrings(last)

\* the profile is the same for two vault contents that agree on being set
ProfileDependsOnFlagOnly ==
    \A i \in 1..Len(users), b1, b2 \in Blobs \cup {NoneVal} :
        Truthy(b1) = Truthy(b2)
            => ProfileBody(i, [users[i] EXCEPT !.api_key_vault = b1])
                   = ProfileBody(i, [users[i] EXCEPT !.api_key_vault = b2])

ServerKeyOf(v) == IF v = "fastapi" THEN serverKey ELSE ""
Configured(key) == Truthy(key) /\ ~HasPlaceholder(key)

NoCredential(r) ==
    /\ r.code \in {400, 500}
    /\ r.body.detail \in
           {"No API Key found. Please add one in Settings (Vault).",
            "Server AI configuration missing. Please contact administrator."}

CallMade == Len(outbound') = Len(outbound) + 1
KeyUsed == outbound'[Len(outbound')].key

\* C8: with no server key configured (absent or placeholder) and no vault
\* entry, chat fails with NoCredential and no outbound call is attempted; a
\* configured server key is used in preference to the vault entry, otherwise
\* the vault entry is used.
C8_CredentialResolution ==
    [][(RequestStep("chat") /\ last'.uid # 0)
          => LET key == ServerKeyOf(last'.variant)
                 vault == users[last'.uid].api_key_vault
             IN /\ (~Configured(key) /\ ~Truthy(vault))
                        => (NoCredential(last') /\ outbound' = outbound)
                /\ (Configured(key) /\ CallMade) => KeyUsed = key
                /\ (~Configured(key) /\ Truthy(vault) /\ CallMade) => KeyUsed = vault]_vars

\* C9: when the provider answers with a non-success status, the chat result
\* carries that status code and the provider's body verbatim as the detail,
\* after exactly one outbound attempt.
C9_UpstreamErrorVerbatim ==
    [][RequestStep("chat")
          => /\ Len(outbound') <= Len(outbound) + 1
             /\ (CallMade /\ outbound'[Len(outbound')].reply.kind = "http")
                    => /\ last'.code = outbound'[Len(outbound')].reply.status
                       /\ last'.body.detail = outbound'[Len(outbound')].reply.text]_vars

(***************************************************************************)
(* Claims about the progress ledger                                        *)
(***************************************************************************)
\* C1: once a stored progress record has status "completed" it keeps it (and,
\* with one request handled at a time, all its fields) through every further
\* push by any account with any items.
C1_CompletionLatch ==
    [][\A i \in 1..Len(progress) :
          progress[i].status = "completed"
              => (i <= Len(progress') /\ progress'[i] = progress[i])]_vars

\* a push was handled for an account that holds a completed record, and
\* pushing "started" for that lesson leaves the ledger as it is
C1_Witness ==
    /\ last.op = "push"
    /\ last.code = 200
    /\ \E i \in 1..Len(progress) :
          /\ progress[i].user_id = last.uid
          /\ progress[i].status = "completed"
          /\ ApplyPush(progress, last.uid,
                       <<[lesson_id |-> progress[i].lesson_id, status |-> "started",
                          homework_passed |-> ~progress[i].homework_passed]>>) = progress

\* C2: there is at most one progress record per (account, lesson) pair.
C2_OneRecordPerPair ==
    \A i, j \in 1..Len(progress) :
        (progress[i].user_id = progress[j].user_id
            /\ progress[i].lesson_id = progress[j].lesson_id) => i = j

\* C3: from every reachable ledger, for every account and push list, applying
\* the push twice in a row leaves the ledger as applying it once does.
C3_PushIdempotent ==
    \A uid \in 1..Len(users), items \in PushLists :
        ApplyPush(ApplyPush(progress, uid, items), uid, items)
            = ApplyPush(progress, uid, items)

L1Done == [lesson_id |-> "L1", status |-> "completed", homework_passed |-> TRUE]

\* {L1, completed, true} was pushed: exactly one record, in that state, and
\* pushing it again changes nothing
C3_Witness ==
    /\ last.op = "push"
    /\ last.code = 200
    /\ progress = <<NewProgress(last.uid, L1Done)>>
    /\ ApplyPush(progress, last.uid, <<L1Done>>) = progress
    /\ ApplyPush(<<>>, last.uid, <<L1Done, L1Done>>) = progress

\* the state of the record first() finds for the pair, "none" without one
RecordState(table, uid, lesson) ==
    IF Matching(table, uid, lesson) = {}
    THEN [status |-> "none", homework_passed |-> FALSE]
    ELSE [status |-> table[Min(Matching(table, uid, lesson))].status,
          homework_passed |-> table[Min(Matching(table, uid, lesson))].homework_passed]

TwoPushes(table, uid, first, second) ==
    ApplyPush(ApplyPush(table, uid, <<first>>), uid, <<second>>)

\* C4 as claimed: two push items for the same lesson of one account, applied
\* as two separate pushes, leave the same status and homework_passed in
\* either order.
C4_OrderIndependent_WholeRecord ==
    \A uid \in 1..Len(users), x, y \in Items :
        x.lesson_id = y.lesson_id
            => RecordState(TwoPushes(progress, uid, x, y), uid, x.lesson_id)
                   = RecordState(TwoPushes(progress, uid, y, x), uid, x.lesson_id)

\* C4 as amended: the two orders leave the same status; when one item is
\* started and the other completed they leave the same record, which is
\* completed.
C4_OrderIndependent_Status ==
    \A uid \in 1..Len(users), x, y \in Items :
        x.lesson_id = y.lesson_id
            => LET xy == RecordState(TwoPushes(progress, uid, x, y), uid, x.lesson_id)
                   yx == RecordState(TwoPushes(progress, uid, y, x), uid, x.lesson_id)
               IN /\ xy.status = yx.status
                  /\ x.status # y.status => (xy = yx /\ xy.status = "completed")

\* a push left a started record: completed-then-started and
\* started-then-completed both merge into it, and both end completed
C4_Witness ==
    /\ last.op = "push"
    /\ last.code = 200
    /\ \E i \in 1..Len(progress) :
          LET s == [lesson_id |-> progress[i].lesson_id, status |-> "started",
                    homework_passed |-> TRUE]
              c == [lesson_id |-> progress[i].lesson_id, status |-> "completed",
                    homework_passed |-> FALSE]
          IN /\ progress[i].user_id = last.uid
             /\ progress[i].status = "started"
             /\ RecordState(TwoPushes(progress, last.uid, s, c), last.uid,
                            progress[i].lesson_id).status = "completed"
             /\ RecordState(TwoPushes(progress, last.uid, c, s), last.uid,
                            progress[i].lesson_id).status = "completed"

(***************************************************************************)
(* Claims about a push as one unit                                         *)
(***************************************************************************)
\* every change the session holds is in the table, and nothing else changed
AllEffects(sess, before, after) ==
    /\ Len(after) = Len(before) + Len(sess.new)
    /\ \A k \in 1..Len(sess.new) : after[Len(before) + k] = sess.new[k]
    /\ \A i \in 1..Len(before) :
          IF \E o \in sess.objs : o.id = i /\ o.dirty
          THEN /\ after[i].status = Obj(sess, i).status
               /\ after[i].homework_passed = Obj(sess, i).homework_passed
               /\ after[i].user_id = before[i].user_id
               /\ after[i].lesson_id = before[i].lesson_id
          ELSE after[i] = before[i]

\* the step is one of worker w's push request
StepOf(w) == workers'[w] # workers[w]

\* C11: a push is all-or-nothing. While a push is between its items the
\* stored ledger, which is what every pull reads, has none of its changes; the
\* step that ends it successfully stores all of them at once; a push that ends
\* with an error (an item that does not validate) stores none.
C11_PushAllOrNothing ==
    /\ [][\A w \in Workers :
             StepOf(w) =>
                 /\ Busy(w)' => progress' = progress
                 /\ (Busy(w) /\ ~Busy(w)' /\ last'.code # 200) => progress' = progress
                 /\ (Busy(w) /\ ~Busy(w)' /\ last'.code = 200)
                        => AllEffects(workers[w].sess, progress, progress')]_vars
    /\ [][progress' # progress
             => \E w \in Workers : StepOf(w) /\ Busy(w) /\ ~Busy(w)' /\ last'.code = 200]_vars
    /\ [][(RequestStep("pull") /\ last'.code = 200)
             => last'.body.records = PullBody(progress, last'.uid)]_vars
    /\ [][(RequestStep("push") /\ last'.code # 200) => progress' = progress]_vars

\* a pull was answered with an empty ledger while a push of the same account
\* holds the changes of two items, none of them stored
C11_Witness ==
    /\ last.op = "pull"
    /\ last.code = 200
    /\ last.body.records = <<>>
    /\ progress = <<>>
    /\ \E w \in Workers :
          /\ Busy(w)
          /\ workers[w].uid = last.uid
          /\ workers[w].n = 2
          /\ Len(workers[w].sess.new) = 2

(***************************************************************************)
(* Claims about the frame of the merge rule                                *)
(***************************************************************************)
\* the record a push item is merged into
Existing(table, uid, item) == Min(Matching(table, uid, item.lesson_id))

\* the named lessons of a push list
LessonsOf(items) == {items[k].lesson_id : k \in 1..Len(items)}

\* one item pushed on its own: the record it finds changes as the rule says
\* and no other record does; without a record the item is appended verbatim
ItemFrame(table, uid, item) ==
    LET after == ApplyPush(table, uid, <<item>>) IN
    IF Matching(table, uid, item.lesson_id) = {}
    THEN after = Append(table, [user_id |-> uid, lesson_id |-> item.lesson_id,
                                status |-> item.status,
                                homework_passed |-> item.homework_passed])
    ELSE LET i == Existing(table, uid, item) IN
         /\ Len(after) = Len(table)
         /\ \A j \in 1..Len(table) : j # i => after[j] = table[j]
         /\ IF table[i].status # "completed" /\ item.status = "completed"
            THEN after[i] = [user_id |-> uid, lesson_id |-> item.lesson_id,
                             status |-> item.status,
                             homework_passed |-> item.homework_passed]
            ELSE after[i] = table[i]

\* a push list leaves the records of other accounts and of lessons it does
\* not name as they are, in their places
ListFrame(table, uid, items) ==
    LET after == ApplyPush(table, uid, items) IN
    /\ Len(after) >= Len(table)
    /\ \A j \in 1..Len(table) :
          (table[j].user_id # uid \/ table[j].lesson_id \notin LessonsOf(items))
              => after[j] = table[j]
    /\ \A j \in (Len(table) + 1)..Len(after) :
          after[j].user_id = uid /\ after[j].lesson_id \in LessonsOf(items)

\* C12: a push item for a lesson that has a record changes that record only
\* when the stored status is not completed and the incoming one is, and then
\* status and homework_passed take the incoming values; in every other case
\* no field of the record changes; records of other lessons and of other
\* accounts never change; an item for a lesson with no record is inserted
\* verbatim.
C12_MergeRuleFrame ==
    /\ \A uid \in 1..Len(users), item \in Items : ItemFrame(progress, uid, item)
    /\ \A uid \in 1..Len(users), items \in PushLists : ListFrame(progress, uid, items)

\* a push left account 1 a started record with the homework flag set, next to
\* a record of account 2 for the same lesson: completing it with the flag
\* unset overwrites both fields of that record alone, and pushing started
\* with the flag unset changes nothing
C12_Witness ==
    /\ last.op = "push"
    /\ last.code = 200
    /\ Len(progress) = 2
    /\ progress[1] = [user_id |-> 2, lesson_id |-> "L1", status |-> "completed",
                      homework_passed |-> TRUE]
    /\ progress[2] = [user_id |-> 1, lesson_id |-> "L1", status |-> "started",
                      homework_passed |-> TRUE]
    /\ ApplyPush(progress, 1, <<[lesson_id |-> "L1", status |-> "completed",
                                 homework_passed |-> FALSE]>>)
           = [progress EXCEPT ![2].status = "completed", ![2].homework_passed = FALSE]
    /\ ApplyPush(progress, 1, <<[lesson_id |-> "L1", status |-> "started",
                                 homework_passed |-> FALSE]>>) = progress

====
